---- MODULE Spec2Model ----
(***************************************************************************)
(* kana_power (src/main.rs): a low-level keyboard hook that recognises an  *)
(* isolated tap of one of two configured keys (KeyManager), records the    *)
(* resulting action in one of two atomic flags, and a polling thread       *)
(* (ime_control_thread) that injects the IME-off / IME-on key once the     *)
(* control key is no longer reported held by GetAsyncKeyState.             *)
(***************************************************************************)
EXTENDS Naturals, Sequences, FiniteSets

\* ---------------------------------------------------------------- constants

\* Window messages a low-level keyboard hook receives (main.rs 23-26).
WM_KEYDOWN == 256
WM_KEYUP == 257
WM_SYSKEYDOWN == 260
WM_SYSKEYUP == 261

\* Virtual key codes: left Ctrl 0xA2, right Ctrl 0xA3, 'A' 0x41.
VK_LCONTROL == 162
VK_RCONTROL == 163
VK_A == 65
\* The keys the worker injects: VK_IME_ON 0x16, VK_IME_OFF 0x1A.
VK_IME_ON == 22
VK_IME_OFF == 26

\* Number of INPUT structures send_ime_off / send_ime_on hand to SendInput.
NInputs == 2

\* The messages and key codes the hook is driven with.
Messages == {WM_KEYDOWN, WM_KEYUP, WM_SYSKEYDOWN, WM_SYSKEYUP}
KeyCodes == {VK_LCONTROL, VK_RCONTROL, VK_A}

\* config.json: the codes ime_off / ime_on may be set to (default: left and
\* right Ctrl; also swapped, and both set to the same code).
ConfigCodes == {VK_LCONTROL, VK_RCONTROL}
Configs == [ime_off : ConfigCodes, ime_on : ConfigCodes]
DefaultConfig == [ime_off |-> VK_LCONTROL, ime_on |-> VK_RCONTROL]

\* enum KeyAction, and Option<KeyAction>::None.
KeyAction == {"ImeOff", "ImeOn"}
None == "None"

\* ------------------------------------------------------------------- bounds

\* Number of most recent hook events the observer remembers.
HistLen == 4
\* Saturation of the observers' request and injection counters.
MaxCount == 2
\* Messages waiting in the main thread's queue at most.
MaxQueue == 2
\* Shutdown signals waiting in the channel at most.
MaxSignals == 1

\* -------------------------------------------------------------------- state

VARIABLES
    config,               \* the loaded Config.keys
    states,               \* KeyManager.states : HashMap<u32, KeyState>
    other_key_pressed,    \* KeyManager.other_key_pressed
    SHOULD_SEND_IME_OFF,  \* static AtomicBool
    SHOULD_SEND_IME_ON,   \* static AtomicBool
    wpc,                  \* position of ime_control_thread in its loop
    phys,                 \* keys GetAsyncKeyState reports as held
    sendinput_ret,        \* ret of the SendInput call of this tick, << >> outside it
    hist,                 \* observer: the last HistLen hook events
    sawOther,             \* observer: held tracked keys that saw an untracked key-down
    ep,                   \* observer: per action, the current burst of requests
    script,               \* scenario: the key events the user produces
    pos,                  \* scenario: how many of them the hook has received
    lag,                  \* scenario: the last event's key state is not yet updated
    injected,             \* scenario: SendInput calls made so far, per action
    inflight,             \* scenario: injected key events the hook has yet to see
    mpc,                  \* position of main in its message loop
    queue,                \* the main thread's message queue
    rx,                   \* number of shutdown signals waiting in the channel
    hooked,               \* the keyboard hook is registered
    issued,               \* observer: a shutdown signal has been sent
    msg_after             \* observer: msg was retrieved after a signal was sent

coreVars == <<config, states, other_key_pressed, SHOULD_SEND_IME_OFF,
              SHOULD_SEND_IME_ON, wpc, phys, sendinput_ret>>
obsVars == <<hist, sawOther, ep, script, pos, lag, injected, inflight>>
vars == <<config, states, other_key_pressed, SHOULD_SEND_IME_OFF,
          SHOULD_SEND_IME_ON, wpc, phys, sendinput_ret, hist, sawOther, ep, script,
          pos, lag, injected, inflight, mpc, queue, rx, hooked, issued,
          msg_after>>
mainVars == <<mpc, queue, rx, hooked, issued, msg_after>>

\* ------------------------------------------------------------- KeyManager

\* KeyManager::new with the two actions exchanged.
KeyManager_new_swapped(cfg) ==
    [k \in {cfg.ime_off, cfg.ime_on} |->
        [pressed |-> FALSE,
         action  |-> IF k = cfg.ime_on THEN "ImeOff" ELSE "ImeOn"]]

\* KeyManager::new: two inserts into an empty HashMap; the second insert
\* replaces the first when both codes are equal.
KeyManager_new(cfg) ==
    [k \in {cfg.ime_off, cfg.ime_on} |->
        [pressed |-> FALSE,
         action  |-> IF k = cfg.ime_on THEN "ImeOn" ELSE "ImeOff"]]

\* states.contains_key(key_code)
Tracked(key_code) == key_code \in DOMAIN states

\* self.states.iter().any(|(_, state)| state.pressed)
AnyPressed == \E k \in DOMAIN states : states[k].pressed

\* key_down with the pressed-key test made for every key, tracked or not.
key_down_unconditional(key_code) ==
    /\ states' = IF Tracked(key_code)
                 THEN [states EXCEPT ![key_code].pressed = TRUE]
                 ELSE states
    /\ other_key_pressed' = IF AnyPressed THEN TRUE ELSE other_key_pressed

\* key_down with all() in place of any().
key_down_all(key_code) ==
    IF Tracked(key_code)
    THEN /\ states' = [states EXCEPT ![key_code].pressed = TRUE]
         /\ UNCHANGED other_key_pressed
    ELSE /\ other_key_pressed' =
                IF \A k \in DOMAIN states : states[k].pressed
                THEN TRUE ELSE other_key_pressed
         /\ UNCHANGED states

\* KeyManager::key_down
key_down(key_code) ==
    IF Tracked(key_code)
    THEN /\ states' = [states EXCEPT ![key_code].pressed = TRUE]
         /\ UNCHANGED other_key_pressed
    ELSE /\ other_key_pressed' = IF AnyPressed THEN TRUE ELSE other_key_pressed
         /\ UNCHANGED states

\* The value KeyManager::key_up returns, from the state it is called in.
key_up_result(key_code) ==
    IF Tracked(key_code) /\ ~other_key_pressed
    THEN states[key_code].action
    ELSE None

\* key_up without the reset of other_key_pressed.
key_up_no_clear(key_code) ==
    /\ states' = IF Tracked(key_code)
                 THEN [states EXCEPT ![key_code].pressed = FALSE]
                 ELSE states
    /\ UNCHANGED other_key_pressed

\* key_up with the reset of other_key_pressed placed after the if-let, so
\* that it runs for every key.
key_up_always_clear(key_code) ==
    /\ states' = IF Tracked(key_code)
                 THEN [states EXCEPT ![key_code].pressed = FALSE]
                 ELSE states
    /\ other_key_pressed' = FALSE

\* KeyManager::key_up, its effect on the KeyManager.
key_up(key_code) ==
    IF Tracked(key_code)
    THEN /\ states' = [states EXCEPT ![key_code].pressed = FALSE]
         /\ IF ~other_key_pressed
            THEN UNCHANGED other_key_pressed
            ELSE other_key_pressed' = FALSE
    ELSE UNCHANGED <<states, other_key_pressed>>

\* ----------------------------------------------------------- hook_callback

IsDown(w_param) == w_param \in {WM_KEYDOWN, WM_SYSKEYDOWN}
IsUp(w_param) == w_param \in {WM_KEYUP, WM_SYSKEYUP}

\* hook_callback storing the flag of the released key's action whatever
\* key_up returned.
hook_callback_store_on_release(w_param, key_code) ==
    /\ IF IsDown(w_param)
       THEN /\ key_down(key_code)
            /\ UNCHANGED <<SHOULD_SEND_IME_OFF, SHOULD_SEND_IME_ON>>
       ELSE IF IsUp(w_param)
       THEN /\ key_up(key_code)
            /\ SHOULD_SEND_IME_OFF' =
                 IF Tracked(key_code) /\ states[key_code].action = "ImeOff"
                 THEN TRUE ELSE SHOULD_SEND_IME_OFF
            /\ SHOULD_SEND_IME_ON' =
                 IF Tracked(key_code) /\ states[key_code].action = "ImeOn"
                 THEN TRUE ELSE SHOULD_SEND_IME_ON
       ELSE UNCHANGED <<states, other_key_pressed, SHOULD_SEND_IME_OFF, SHOULD_SEND_IME_ON>>
    /\ UNCHANGED <<config, wpc, phys, sendinput_ret>>
    /\ UNCHANGED mainVars

\* hook_callback with code >= 0 and a non-null KBDLLHOOKSTRUCT: the match on
\* w_param, key_down / key_up under the KEY_MANAGER lock, and the store of the
\* flag of the returned action.
hook_callback(w_param, key_code) ==
    /\ IF IsDown(w_param)
       THEN /\ key_down(key_code)
            /\ UNCHANGED <<SHOULD_SEND_IME_OFF, SHOULD_SEND_IME_ON>>
       ELSE IF IsUp(w_param)
       THEN /\ key_up(key_code)
            /\ SHOULD_SEND_IME_OFF' =
                 IF key_up_result(key_code) = "ImeOff" THEN TRUE ELSE SHOULD_SEND_IME_OFF
            /\ SHOULD_SEND_IME_ON' =
                 IF key_up_result(key_code) = "ImeOn" THEN TRUE ELSE SHOULD_SEND_IME_ON
       ELSE UNCHANGED <<states, other_key_pressed, SHOULD_SEND_IME_OFF, SHOULD_SEND_IME_ON>>
    /\ UNCHANGED <<config, wpc, phys, sendinput_ret>>
    /\ UNCHANGED mainVars

\* ------------------------------------------------------ ime_control_thread

\* is_key_pressed: GetAsyncKeyState(vk_code) < 0
is_key_pressed(vk_code) == vk_code \in phys

workerRest == <<config, states, other_key_pressed, phys, mainVars>>

\* if SHOULD_SEND_IME_OFF.load(SeqCst)
load_off ==
    /\ wpc = "load_off"
    /\ wpc' = IF SHOULD_SEND_IME_OFF THEN "check_off" ELSE "load_on"
    /\ UNCHANGED <<SHOULD_SEND_IME_OFF, SHOULD_SEND_IME_ON>>
    /\ UNCHANGED workerRest
    /\ sendinput_ret' = << >>

\* if !is_key_pressed(VK_LCONTROL)
check_off ==
    /\ wpc = "check_off"
    /\ wpc' = IF ~is_key_pressed(VK_LCONTROL) THEN "send_off" ELSE "load_on"
    /\ UNCHANGED <<SHOULD_SEND_IME_OFF, SHOULD_SEND_IME_ON>>
    /\ UNCHANGED workerRest
    /\ sendinput_ret' = << >>

\* send_ime_off(): SendInput of VK_IME_OFF down and up; ret is the number of
\* events the system accepted, which the function only logs.
send_ime_off ==
    /\ wpc = "send_off"
    /\ wpc' = "store_off"
    /\ UNCHANGED <<SHOULD_SEND_IME_OFF, SHOULD_SEND_IME_ON>>
    /\ UNCHANGED workerRest
    /\ \E ret \in 0..NInputs : sendinput_ret' = <<ret>>

\* The worker without its store of false into SHOULD_SEND_IME_OFF.
store_off_skipped ==
    /\ wpc = "store_off"
    /\ wpc' = "load_on"
    /\ UNCHANGED <<SHOULD_SEND_IME_OFF, SHOULD_SEND_IME_ON>>
    /\ UNCHANGED workerRest
    /\ UNCHANGED sendinput_ret

\* The worker clearing the flag only when SendInput delivered every event.
store_off_if_delivered ==
    /\ wpc = "store_off"
    /\ wpc' = "load_on"
    /\ SHOULD_SEND_IME_OFF' =
         IF Head(sendinput_ret) = NInputs THEN FALSE ELSE SHOULD_SEND_IME_OFF
    /\ UNCHANGED SHOULD_SEND_IME_ON
    /\ UNCHANGED workerRest
    /\ UNCHANGED sendinput_ret

\* SHOULD_SEND_IME_OFF.store(false, SeqCst)
store_off ==
    /\ wpc = "store_off"
    /\ wpc' = "load_on"
    /\ SHOULD_SEND_IME_OFF' = FALSE
    /\ UNCHANGED SHOULD_SEND_IME_ON
    /\ UNCHANGED workerRest
    /\ UNCHANGED sendinput_ret

\* if SHOULD_SEND_IME_ON.load(SeqCst)
load_on ==
    /\ wpc = "load_on"
    /\ wpc' = IF SHOULD_SEND_IME_ON THEN "check_on" ELSE "sleep"
    /\ UNCHANGED <<SHOULD_SEND_IME_OFF, SHOULD_SEND_IME_ON>>
    /\ UNCHANGED workerRest
    /\ sendinput_ret' = << >>

\* if !is_key_pressed(VK_RCONTROL)
check_on ==
    /\ wpc = "check_on"
    /\ wpc' = IF ~is_key_pressed(VK_RCONTROL) THEN "send_on" ELSE "sleep"
    /\ UNCHANGED <<SHOULD_SEND_IME_OFF, SHOULD_SEND_IME_ON>>
    /\ UNCHANGED workerRest
    /\ sendinput_ret' = << >>

\* send_ime_on(): SendInput of VK_IME_ON down and up; ret as in send_ime_off.
send_ime_on ==
    /\ wpc = "send_on"
    /\ wpc' = "store_on"
    /\ UNCHANGED <<SHOULD_SEND_IME_OFF, SHOULD_SEND_IME_ON>>
    /\ UNCHANGED workerRest
    /\ \E ret \in 0..NInputs : sendinput_ret' = <<ret>>

\* SHOULD_SEND_IME_ON.store(false, SeqCst)
store_on ==
    /\ wpc = "store_on"
    /\ wpc' = "sleep"
    /\ SHOULD_SEND_IME_ON' = FALSE
    /\ UNCHANGED SHOULD_SEND_IME_OFF
    /\ UNCHANGED workerRest
    /\ UNCHANGED sendinput_ret

\* thread::sleep(Duration::from_millis(10)), then the next iteration
sleep ==
    /\ wpc = "sleep"
    /\ wpc' = "load_off"
    /\ UNCHANGED <<SHOULD_SEND_IME_OFF, SHOULD_SEND_IME_ON>>
    /\ UNCHANGED workerRest
    /\ sendinput_ret' = << >>

\* One atomic step of the loop of ime_control_thread.
ime_control_thread ==
    \/ load_off
    \/ check_off
    \/ send_ime_off
    \/ store_off
    \/ load_on
    \/ check_on
    \/ send_ime_on
    \/ store_on
    \/ sleep

\* The flag of an action, and where the worker stands for it.
Flag(a) == IF a = "ImeOff" THEN SHOULD_SEND_IME_OFF ELSE SHOULD_SEND_IME_ON
AtLoad(a) == wpc = (IF a = "ImeOff" THEN "load_off" ELSE "load_on")
AtCheck(a) == wpc = (IF a = "ImeOff" THEN "check_off" ELSE "check_on")
AtSend(a) == wpc = (IF a = "ImeOff" THEN "send_off" ELSE "send_on")
AtStore(a) == wpc = (IF a = "ImeOff" THEN "store_off" ELSE "store_on")

\* ---------------------------------------------------------------- observers

Min(a, b) == IF a < b THEN a ELSE b

\* The record the observer keeps of one call of hook_callback: the kind of
\* event, the key, what key_up returned (None for a key-down), whether a
\* key-down found its tracked key already pressed (auto-repeat), and whether
\* an untracked key went down while the released tracked key was held.
Event(w_param, key_code) ==
    [kind |-> IF IsDown(w_param) THEN "down" ELSE "up",
     key  |-> key_code,
     ret  |-> IF IsUp(w_param) THEN key_up_result(key_code) ELSE None,
     rep  |-> IsDown(w_param) /\ Tracked(key_code) /\ states[key_code].pressed,
     intr |-> IsUp(w_param) /\ key_code \in sawOther]

Push(h, e) == IF Len(h) < HistLen THEN Append(h, e) ELSE Append(Tail(h), e)

\* Tracked keys that are held and have seen an untracked key-down since they
\* went down.
SawOtherAfter(w_param, key_code) ==
    IF IsDown(w_param) /\ ~Tracked(key_code)
    THEN sawOther \cup {k \in DOMAIN states : states[k].pressed}
    ELSE IF IsUp(w_param) THEN sawOther \ {key_code}
    ELSE sawOther

\* Per action, the current burst of requests: n requests made with no load of
\* the flag by the worker in between, inj injections since the first of them,
\* read once the worker has loaded the flag after the last of them, served
\* once the worker has called SendInput after the last of them.
EpAfterHook(w_param, key_code) ==
    [a \in KeyAction |->
        IF IsUp(w_param) /\ key_up_result(key_code) = a
        THEN IF ep[a].read
             THEN [n |-> 1, inj |-> 0, read |-> FALSE, served |-> FALSE]
             ELSE [ep[a] EXCEPT !.n = Min(@ + 1, MaxCount), !.served = FALSE]
        ELSE ep[a]]

EpAfterWorker ==
    [a \in KeyAction |->
        IF AtLoad(a) THEN [ep[a] EXCEPT !.read = TRUE]
        ELSE IF AtSend(a)
             THEN [ep[a] EXCEPT !.inj = Min(@ + 1, MaxCount), !.served = TRUE]
        ELSE ep[a]]

InjectedAfterWorker ==
    [a \in KeyAction |->
        IF AtSend(a) THEN Min(injected[a] + 1, MaxCount) ELSE injected[a]]

\* The INPUT array send_ime_off / send_ime_on build: key-down, then key-up.
Inputs(wVk) ==
    << [w |-> WM_KEYDOWN, key |-> wVk], [w |-> WM_KEYUP, key |-> wVk] >>

\* SendInput inserts the first ret events of the array into the input stream.
InflightAfterWorker ==
    IF wpc = "send_off"
    THEN inflight \o SubSeq(Inputs(VK_IME_OFF), 1, Head(sendinput_ret'))
    ELSE IF wpc = "send_on"
    THEN inflight \o SubSeq(Inputs(VK_IME_ON), 1, Head(sendinput_ret'))
    ELSE inflight

\* ------------------------------------------------------------ initial state

\* After KeyManager::new and thread::spawn: no key pressed, both flags false,
\* the worker at the top of its loop.
InitCore(cfg) ==
    /\ config = cfg
    /\ states = KeyManager_new(cfg)
    /\ other_key_pressed = FALSE
    /\ SHOULD_SEND_IME_OFF = FALSE
    /\ SHOULD_SEND_IME_ON = FALSE
    /\ wpc = "load_off"
    /\ phys = {}
    /\ sendinput_ret = << >>

\* main has registered the hook and is about to call GetMessageA for the
\* first time; no shutdown signal has been sent.
InitMain ==
    /\ mpc = "get"
    /\ queue = << >>
    /\ rx = 0
    /\ hooked = TRUE
    /\ issued = FALSE
    /\ msg_after = FALSE

InitObs ==
    /\ hist = <<>>
    /\ sawOther = {}
    /\ ep = [a \in KeyAction |->
                [n |-> 0, inj |-> 0, read |-> TRUE, served |-> TRUE]]
    /\ pos = 0
    /\ lag = FALSE
    /\ injected = [a \in KeyAction |-> 0]
    /\ inflight = << >>

Init ==
    /\ \E cfg \in Configs : InitCore(cfg)
    /\ InitMain
    /\ InitObs
    /\ script = <<>>

\* ------------------------------------- the hook and the worker, interleaved

\* Any key event reaches the hook.
KeyEvent ==
    \E w_param \in Messages, key_code \in KeyCodes :
        /\ hook_callback(w_param, key_code)
        /\ ep' = EpAfterHook(w_param, key_code)
        /\ UNCHANGED <<hist, sawOther, script, pos, lag, injected, inflight>>

\* One step of the worker thread. The events it injects are among the
\* arbitrary events of untracked keys KeyEvent delivers.
Worker ==
    /\ ime_control_thread
    /\ ep' = EpAfterWorker
    /\ UNCHANGED <<hist, sawOther, script, pos, lag, injected, inflight>>

\* The asynchronous key state of a control key changes.
KeyHeld ==
    \E k \in ConfigCodes :
        /\ k \notin phys
        /\ phys' = phys \cup {k}
        /\ UNCHANGED <<config, states, other_key_pressed, SHOULD_SEND_IME_OFF,
                       SHOULD_SEND_IME_ON, wpc, sendinput_ret>>
        /\ UNCHANGED <<obsVars, mainVars>>

KeyReleased ==
    \E k \in ConfigCodes :
        /\ k \in phys
        /\ phys' = phys \ {k}
        /\ UNCHANGED <<config, states, other_key_pressed, SHOULD_SEND_IME_OFF,
                       SHOULD_SEND_IME_ON, wpc, sendinput_ret>>
        /\ UNCHANGED <<obsVars, mainVars>>

Next == KeyEvent \/ Worker \/ KeyHeld \/ KeyReleased

Spec == Init /\ [][Next]_vars

\* The worker thread is never starved by the scheduler.
LiveSpec == Spec /\ WF_vars(Worker)

\* ------------------------------------------------- the KeyManager by itself

\* Any key event reaches the hook; the observer records it.
ObservedKeyEvent ==
    \E w_param \in Messages, key_code \in KeyCodes :
        /\ hook_callback(w_param, key_code)
        /\ hist' = Push(hist, Event(w_param, key_code))
        /\ sawOther' = SawOtherAfter(w_param, key_code)
        /\ UNCHANGED <<ep, script, pos, lag, injected, inflight>>

KeysNext == ObservedKeyEvent

KeysSpec == Init /\ [][KeysNext]_vars

\* ------------------------------------------------------ end-to-end scenarios

\* down(0xA2), up(0xA2)
TapScript ==
    << [w |-> WM_KEYDOWN, key |-> VK_LCONTROL],
       [w |-> WM_KEYUP,   key |-> VK_LCONTROL] >>

\* down(0xA2), down(0x41), up(0x41), up(0xA2)
ComboScript ==
    << [w |-> WM_KEYDOWN, key |-> VK_LCONTROL],
       [w |-> WM_KEYDOWN, key |-> VK_A],
       [w |-> WM_KEYUP,   key |-> VK_A],
       [w |-> WM_KEYUP,   key |-> VK_LCONTROL] >>

\* down(0xA3), up(0xA3)
TapOnScript ==
    << [w |-> WM_KEYDOWN, key |-> VK_RCONTROL],
       [w |-> WM_KEYUP,   key |-> VK_RCONTROL] >>

\* down(0xA2), up(0xA2), down(0xA2), up(0xA2)
DoubleTapScript == TapScript \o TapScript

\* down(0xA2), down(0xA3), up(0xA3), up(0xA2)
ChordScript ==
    << [w |-> WM_KEYDOWN, key |-> VK_LCONTROL],
       [w |-> WM_KEYDOWN, key |-> VK_RCONTROL],
       [w |-> WM_KEYUP,   key |-> VK_RCONTROL],
       [w |-> WM_KEYUP,   key |-> VK_LCONTROL] >>

\* down(0xA2), up(0xA2), down(0xA3), up(0xA3)
TapBothScript == TapScript \o TapOnScript

Scripts == {TapScript, ComboScript, TapOnScript, DoubleTapScript, ChordScript,
            TapBothScript}

ScenarioInit ==
    /\ InitCore(DefaultConfig)
    /\ InitMain
    /\ InitObs
    /\ script \in Scripts

\* The user's next key event reaches the hook. The hook runs before the
\* asynchronous key state is updated, and the system handles one event at a
\* time.
Deliver ==
    /\ ~lag
    /\ pos < Len(script)
    /\ hook_callback(script[pos + 1].w, script[pos + 1].key)
    /\ pos' = pos + 1
    /\ lag' = TRUE
    /\ UNCHANGED <<hist, sawOther, ep, script, injected, inflight>>

\* The next injected key event reaches the hook, like any other key event.
DeliverInjected ==
    /\ ~lag
    /\ inflight # << >>
    /\ hook_callback(Head(inflight).w, Head(inflight).key)
    /\ inflight' = Tail(inflight)
    /\ UNCHANGED <<hist, sawOther, ep, script, pos, lag, injected>>

\* The asynchronous key state catches up with the event just delivered.
Commit ==
    /\ lag
    /\ lag' = FALSE
    /\ phys' = IF IsDown(script[pos].w)
               THEN phys \cup {script[pos].key}
               ELSE phys \ {script[pos].key}
    /\ UNCHANGED <<config, states, other_key_pressed, SHOULD_SEND_IME_OFF,
                   SHOULD_SEND_IME_ON, wpc, sendinput_ret>>
    /\ UNCHANGED <<hist, sawOther, ep, script, pos, injected, inflight>>
    /\ UNCHANGED mainVars

\* One step of the worker thread; the observer counts the SendInput calls,
\* and the events SendInput inserted are on their way to the hook.
ScenarioWorker ==
    /\ ime_control_thread
    /\ injected' = InjectedAfterWorker
    /\ inflight' = InflightAfterWorker
    /\ UNCHANGED <<hist, sawOther, ep, script, pos, lag>>

ScenarioNext == Deliver \/ DeliverInjected \/ Commit \/ ScenarioWorker

\* The scripted events are all delivered, the key state catches up, and the
\* worker thread keeps running.
ScenarioSpec ==
    /\ ScenarioInit
    /\ [][ScenarioNext]_vars
    /\ WF_vars(Deliver)
    /\ WF_vars(DeliverInjected)
    /\ WF_vars(Commit)
    /\ WF_vars(ScenarioWorker)

\* ----------------------------------------------------- the main message loop

\* What the queue holds: WM_QUIT, or any other message.
MessageKinds == {"WM_QUIT", "other"}

\* A message is posted to the main thread's queue.
PostMessage ==
    \E m \in MessageKinds :
        /\ mpc # "done"
        /\ Len(queue) < MaxQueue
        /\ queue' = Append(queue, m)
        /\ UNCHANGED <<mpc, rx, hooked, issued, msg_after>>
        /\ UNCHANGED <<coreVars, obsVars>>

\* The menu event handler runs: event_tx.send(()).
MenuEvent ==
    /\ mpc # "done"
    /\ rx < MaxSignals
    /\ rx' = rx + 1
    /\ issued' = TRUE
    /\ UNCHANGED <<mpc, queue, hooked, msg_after>>
    /\ UNCHANGED <<coreVars, obsVars>>

\* GetMessageA blocks until the queue holds a message, removes it, and
\* returns zero for WM_QUIT alone.
GetMessageA ==
    /\ mpc = "get"
    /\ queue # << >>
    /\ queue' = Tail(queue)
    /\ mpc' = IF Head(queue) = "WM_QUIT" THEN "unhook" ELSE "recv"
    /\ msg_after' = issued
    /\ UNCHANGED <<rx, hooked, issued>>
    /\ UNCHANGED <<coreVars, obsVars>>

\* if rx.try_recv().is_ok() { break; }
try_recv ==
    /\ mpc = "recv"
    /\ IF rx > 0
       THEN rx' = rx - 1 /\ mpc' = "unhook"
       ELSE rx' = rx /\ mpc' = "dispatch"
    /\ UNCHANGED <<queue, hooked, issued, msg_after>>
    /\ UNCHANGED <<coreVars, obsVars>>

\* TranslateMessage(&msg); DispatchMessageA(&msg);
DispatchMessageA ==
    /\ mpc = "dispatch"
    /\ mpc' = "get"
    /\ UNCHANGED <<queue, rx, hooked, issued, msg_after>>
    /\ UNCHANGED <<coreVars, obsVars>>

\* UnhookWindowsHookEx(hook.unwrap()); Ok(())
UnhookWindowsHookEx ==
    /\ mpc = "unhook"
    /\ hooked' = FALSE
    /\ mpc' = "done"
    /\ UNCHANGED <<queue, rx, issued, msg_after>>
    /\ UNCHANGED <<coreVars, obsVars>>

\* The system calls the hook while the thread that registered it waits in
\* GetMessageA.
HookCall ==
    /\ hooked
    /\ mpc = "get"
    /\ \E w_param \in Messages, key_code \in KeyCodes :
           hook_callback(w_param, key_code)
    /\ UNCHANGED obsVars

\* One step of the worker thread, which ends with the process.
MainWorker ==
    /\ mpc # "done"
    /\ ime_control_thread
    /\ UNCHANGED obsVars

MainInit ==
    /\ InitCore(DefaultConfig)
    /\ InitMain
    /\ InitObs
    /\ script = << >>

MainNext ==
    \/ PostMessage
    \/ MenuEvent
    \/ GetMessageA
    \/ try_recv
    \/ DispatchMessageA
    \/ UnhookWindowsHookEx
    \/ HookCall
    \/ MainWorker

\* Neither thread is starved; whether a message is ever posted is up to the
\* rest of the system.
MainSpec ==
    /\ MainInit
    /\ [][MainNext]_vars
    /\ WF_vars(GetMessageA)
    /\ WF_vars(try_recv)
    /\ WF_vars(DispatchMessageA)
    /\ WF_vars(UnhookWindowsHookEx)
    /\ WF_vars(MainWorker)

\* =================================================================== claims

\* The i-th most recent hook event (1 is the last one).
H(i) == hist[Len(hist) + 1 - i]

\* The last two events are on_key_down(k), on_key_up(k) of the same key.
TapOf(k) ==
    /\ Len(hist) >= 2
    /\ H(2).kind = "down" /\ H(2).key = k
    /\ H(1).kind = "up" /\ H(1).key = k

\* The last four events are down(k), down(j), up(j), up(k).
Nested(k, j) ==
    /\ Len(hist) >= 4
    /\ H(4).kind = "down" /\ H(4).key = k
    /\ H(3).kind = "down" /\ H(3).key = j
    /\ H(2).kind = "up" /\ H(2).key = j
    /\ H(1).kind = "up" /\ H(1).key = k

\* C1 (KeysSpec): a tracked key k that is pressed (it was not already down)
\* and released with no key event in between: that on_key_up(k) returns
\* Some(action of k), whatever events came before. The claim's on_key_down(k)
\* is read as a press; an auto-repeat key-down is the case of C5 and C10.
C1_IsolatedTapFires ==
    \A k \in KeyCodes :
        (Tracked(k) /\ TapOf(k) /\ ~H(2).rep) => H(1).ret = states[k].action

\* C2 as claimed (KeysSpec): for a tracked key k and any other key j, tracked
\* or not, down(k), down(j), up(j), up(k) ends with on_key_up(k) returning None.
C2_AnyOtherKeySuppresses ==
    \A k, j \in KeyCodes :
        (Tracked(k) /\ j # k /\ Nested(k, j)) => H(1).ret = None

\* C2 amended (KeysSpec): for a tracked key k and an untracked key j,
\* down(k), down(j), up(j), up(k) ends with on_key_up(k) returning None.
C2_UntrackedKeySuppresses ==
    \A k, j \in KeyCodes :
        (Tracked(k) /\ ~Tracked(j) /\ Nested(k, j)) => H(1).ret = None

\* C2 witness: a tracked key's press was interrupted by an untracked key and
\* its release returned None.
C2_Witness ==
    \E k, j \in KeyCodes :
        Tracked(k) /\ ~Tracked(j) /\ Nested(k, j) /\ H(1).ret = None

\* C5 (KeysSpec): when an untracked key went down while tracked key k was
\* held, the on_key_up(k) ending that hold returns None, whatever else
\* happened in between.
C5_IntervalRule ==
    (Len(hist) >= 1 /\ H(1).kind = "up" /\ Tracked(H(1).key) /\ H(1).intr)
        => H(1).ret = None

\* C6 (KeysSpec): right after on_key_up of a tracked key, whatever it
\* returned, other_key_pressed is false.
C6_ClearedAfterTrackedKeyUp ==
    (Len(hist) >= 1 /\ H(1).kind = "up" /\ Tracked(H(1).key))
        => ~other_key_pressed

\* C6 witness: a tracked key was released after an interruption, key_up
\* returned None.
C6_Witness ==
    /\ Len(hist) >= 1
    /\ H(1).kind = "up" /\ Tracked(H(1).key)
    /\ H(1).intr /\ H(1).ret = None

\* C10 (KeysSpec): on_key_down(k) of a tracked key that is already pressed
\* changes nothing in the KeyManager, so the on_key_up(k) that follows
\* returns what it would have returned without the repeat.
C10_AutoRepeatIdempotent ==
    [][\A k \in KeyCodes :
          (/\ Tracked(k) /\ states[k].pressed
           /\ hist' = Push(hist, Event(WM_KEYDOWN, k)))
          => /\ states' = states
             /\ other_key_pressed' = other_key_pressed
             /\ key_up_result(k)' = key_up_result(k)]_vars

\* C10 witness: a tracked key was pressed, repeated, and released, and the
\* release returned its action.
C10_Witness ==
    /\ Len(hist) >= 3
    /\ H(3).kind = "down" /\ ~H(3).rep /\ Tracked(H(3).key)
    /\ H(2).kind = "down" /\ H(2).rep /\ H(2).key = H(3).key
    /\ H(1).kind = "up" /\ H(1).key = H(3).key
    /\ H(1).ret = states[H(1).key].action

\* C3 (ScenarioSpec): after down(0xA2), up(0xA2) and nothing else, the worker
\* eventually injects ActivateOff, never a second time, and never ActivateOn.
C3_TapInjectsOnce ==
    (script = TapScript) =>
        /\ <>(injected["ImeOff"] = 1)
        /\ [](injected["ImeOff"] <= 1)
        /\ [](injected["ImeOn"] = 0)

\* C3 witness: the tap was delivered, the injection made and the flag cleared.
C3_Witness ==
    /\ script = TapScript /\ pos = 2 /\ ~lag
    /\ injected["ImeOff"] = 1
    /\ ~SHOULD_SEND_IME_OFF
    /\ wpc = "sleep"

\* C4 (ScenarioSpec): during and after down(0xA2), down(0x41), up(0x41),
\* up(0xA2) no flag is ever set and nothing is ever injected.
C4_ComboNoInjection ==
    (script = ComboScript) =>
        /\ ~SHOULD_SEND_IME_OFF /\ ~SHOULD_SEND_IME_ON
        /\ injected["ImeOff"] = 0 /\ injected["ImeOn"] = 0

\* C4 witness: the whole combination was delivered and the worker has polled
\* both flags since.
C4_Witness ==
    /\ script = ComboScript /\ pos = 4 /\ ~lag
    /\ ~states[VK_LCONTROL].pressed
    /\ wpc = "sleep"

\* The tracked keys configured for an action.
KeysOf(a) == {k \in DOMAIN states : states[k].action = a}

\* C7 (Spec): when the worker, with the flag of an action set, makes its
\* physical-state query while that action's configured key is held, it does
\* not go on to inject and the flag stays set.
C7_WorkerDefersWhileHeld ==
    [][\A a \in KeyAction :
          (/\ AtCheck(a) /\ Flag(a)
           /\ \E k \in KeysOf(a) : is_key_pressed(k)
           /\ wpc' # wpc)
          => (~AtSend(a)' /\ Flag(a)')]_vars

\* C8 (Spec): two or more requests of an action with no load of its flag in
\* between, and none after: once the worker has loaded the flag, found or left
\* it cleared and is outside its check-send-store section, it has made exactly
\* one injection since the first of those requests.
C8_Coalescing ==
    \A a \in KeyAction :
        (/\ ep[a].n >= 2 /\ ep[a].read
         /\ ~Flag(a)
         /\ ~(AtCheck(a) \/ AtSend(a) \/ AtStore(a)))
        => ep[a].inj = 1

\* C9 (LiveSpec): if the key the worker queries for an action is eventually
\* released for good, a set flag of that action is eventually cleared.
C9_PendingEventuallyCleared ==
    /\ (<>[](~is_key_pressed(VK_LCONTROL)))
          => (SHOULD_SEND_IME_OFF ~> ~SHOULD_SEND_IME_OFF)
    /\ (<>[](~is_key_pressed(VK_RCONTROL)))
          => (SHOULD_SEND_IME_ON ~> ~SHOULD_SEND_IME_ON)

\* C9 witness: a requested injection was made and the worker has just cleared
\* the flag.
C9_Witness ==
    /\ ep["ImeOff"].n >= 1 /\ ep["ImeOff"].inj >= 1
    /\ ~SHOULD_SEND_IME_OFF
    /\ wpc = "load_on"

\* C11 (KeysSpec): on_key_up of a key that is not tracked returns None and
\* changes no pressed flag, not other_key_pressed, and neither pending flag.
C11_UntrackedKeyUpNoOp ==
    [][\A c \in KeyCodes :
          (~Tracked(c) /\ hist' = Push(hist, Event(WM_KEYUP, c)))
          => /\ key_up_result(c) = None
             /\ states' = states
             /\ other_key_pressed' = other_key_pressed
             /\ SHOULD_SEND_IME_OFF' = SHOULD_SEND_IME_OFF
             /\ SHOULD_SEND_IME_ON' = SHOULD_SEND_IME_ON]_vars

\* C11 witness: an untracked key was released while a tracked key was held
\* and interrupted; the interruption is still recorded.
C11_Witness ==
    /\ Len(hist) >= 1
    /\ H(1).kind = "up" /\ ~Tracked(H(1).key) /\ H(1).ret = None
    /\ other_key_pressed /\ AnyPressed

\* C18 (KeysSpec): whenever other_key_pressed is true some tracked key is
\* pressed; with no tracked key pressed it is false.
C18_InterruptedImpliesHeld ==
    other_key_pressed => AnyPressed

\* C18 witness: other_key_pressed is set while exactly one tracked key is held.
C18_Witness ==
    /\ other_key_pressed
    /\ Cardinality({k \in DOMAIN states : states[k].pressed}) = 1

\* Each action is the action of exactly one tracked key, the configured one,
\* and the first tap of a configured key after construction returns its action.
OneKeyPerAction ==
    /\ KeysOf("ImeOff") = {config.ime_off}
    /\ KeysOf("ImeOn") = {config.ime_on}
    /\ (Len(hist) = 2 /\ TapOf(config.ime_off)) => H(1).ret = "ImeOff"
    /\ (Len(hist) = 2 /\ TapOf(config.ime_on)) => H(1).ret = "ImeOn"

\* C16 as claimed (KeysSpec): for every pair of configured codes, equal codes
\* included, each action has exactly one tracked key, and an isolated tap of
\* the ime_off key returns ImeOff, one of the ime_on key ImeOn.
C16_OneKeyPerActionAlways == OneKeyPerAction

\* C16 amended (KeysSpec): the same for every pair of distinct codes.
C16_OneKeyPerActionIfDistinct ==
    (config.ime_off # config.ime_on) => OneKeyPerAction

\* C16 witness: with distinct codes, the first tap of the ime_off key has
\* returned ImeOff.
C16_Witness ==
    /\ config.ime_off # config.ime_on
    /\ Len(hist) = 2 /\ TapOf(config.ime_off)
    /\ H(1).ret = "ImeOff"

\* C12 (Spec): when SendInput reported fewer events than it was given, the
\* worker's next step still clears the flag of that action; and the worker is
\* only ever about to query or inject for an action whose flag is set, so no
\* further injection follows until a request sets the flag again.
C12_FailureNotRetried ==
    /\ [][\A a \in KeyAction :
             (/\ AtStore(a) /\ wpc' # wpc
              /\ sendinput_ret # << >> /\ Head(sendinput_ret) < NInputs)
             => ~Flag(a)']_vars
    /\ [](\A a \in KeyAction : (AtCheck(a) \/ AtSend(a)) => Flag(a))

\* C12 witness: SendInput delivered nothing and the worker has just cleared
\* the flag.
C12_Witness ==
    /\ wpc = "load_on"
    /\ sendinput_ret = <<0>>
    /\ ~SHOULD_SEND_IME_OFF

\* The key whose asynchronous state the worker queries for an action.
QueriedKey(a) == IF a = "ImeOff" THEN VK_LCONTROL ELSE VK_RCONTROL

Other(a) == IF a = "ImeOff" THEN "ImeOn" ELSE "ImeOff"

\* C14 (Spec): the flag of an action is set only by a step that releases a
\* tracked key for which key_up returns that action (the worker does not move
\* and the other flag is untouched); it is cleared only by the worker's store,
\* which the worker reaches only from its SendInput call of that tick, which
\* it reaches only from a query that found the queried key released.
C14_FlagProtocol ==
    [][\A a \in KeyAction :
          /\ (~Flag(a) /\ Flag(a)') =>
                /\ wpc' = wpc
                /\ Flag(Other(a))' = Flag(Other(a))
                /\ \E c \in KeyCodes :
                      /\ key_up_result(c) = a
                      /\ states' = [states EXCEPT ![c].pressed = FALSE]
          /\ (Flag(a) /\ ~Flag(a)') =>
                (AtStore(a) /\ wpc' # wpc /\ sendinput_ret # << >>)
          /\ (~AtStore(a) /\ AtStore(a)') => AtSend(a)
          /\ (~AtSend(a) /\ AtSend(a)') =>
                (AtCheck(a) /\ ~is_key_pressed(QueriedKey(a)))]_vars

\* C14 witness: a flag was set, the injection made in full, and the worker
\* has just cleared the flag.
C14_Witness ==
    /\ wpc = "sleep"
    /\ sendinput_ret = <<NInputs>>
    /\ ~SHOULD_SEND_IME_ON
    /\ ep["ImeOn"].n >= 1

\* C15 (LiveSpec): no lost request. If from some point on the key the worker
\* queries for an action is physically released, then every request of that
\* action (served is FALSE from the request on) is followed by the beginning
\* of an injection for it (served becomes TRUE at the worker's SendInput).
C15_NoLostRequest ==
    \A a \in KeyAction :
        (<>[](~is_key_pressed(QueriedKey(a))))
        => [](~ep[a].served => <>ep[a].served)

\* C13 (ScenarioSpec): the delivery of an event the worker injected to the
\* hook never changes interrupted (other_key_pressed) and never sets a
\* pending flag.
C13_NoFeedback ==
    [][(inflight # << >> /\ inflight' = Tail(inflight))
       => /\ other_key_pressed' = other_key_pressed
          /\ SHOULD_SEND_IME_OFF' = SHOULD_SEND_IME_OFF
          /\ SHOULD_SEND_IME_ON' = SHOULD_SEND_IME_ON]_vars

\* C17 (MainSpec): once a shutdown signal has been sent, main eventually
\* leaves its loop and unregisters the hook, and a message retrieved after
\* the signal was sent is never dispatched.
C17_ShutdownTerminates ==
    /\ issued ~> (mpc = "done" /\ ~hooked)
    /\ [](~(mpc = "dispatch" /\ msg_after))

====
